---- MODULE Spec2Model ----
(***************************************************************************)
(* Model of the txtrboard polling core: TensorBoardClient.get_runs        *)
(* (src/src/txtrboard/client.py) and Backend.poll_updates                 *)
(* (src/src/txtrboard/backend.py) with the message pump that receives the *)
(* posted messages.                                                        *)
(*                                                                         *)
(* poll_updates has a single suspension point, the await of               *)
(* client.get_runs() at backend.py:72.  It reads and writes the Backend's *)
(* fields only after that await has returned, and there is no further     *)
(* await before it returns, so one action per outcome of the fetch models *)
(* the whole handler.  Where polls of the running app (ui/app.py,          *)
(* ui/header.py) can overlap or be cancelled, the call is split at that    *)
(* await into its start and its return.                                    *)
(*                                                                         *)
(* Further specifications cover the LeftPanel's periodic sync              *)
(* (ui/left_panel.py) and cli.main() with the TensorBoardManager           *)
(* (cli.py, src/src/textual_board/server.py).                              *)
(***************************************************************************)
EXTENDS Integers, Sequences, FiniteSets, TLC

\* ------------------------------------------------------------------ bounds
MaxPolls == 3
MaxLen == 2
MaxCopyPolls == 2
MaxUserEvents == 2
MaxAppPolls == 2
MaxScopeCalls == 2
MaxQueue == 1

Runs == {"a", "b"}
Causes == {"refused", "reset"}

\* ------------------------------------------------------------ python values
\* A Python str is modelled as the tuple of the pieces it is formatted from;
\* the empty string is the empty tuple.
EmptyStr == <<>>

\* Optional[List[str]]
None == [some |-> FALSE, val |-> <<>>]

Some(l) == [some |-> TRUE, val |-> l]

\* bool(x) of an Optional[List[str]]: None and the empty list are falsy.
Truthy(c) == c.some /\ Len(c.val) > 0

RunLists == UNION {[1..n -> Runs] : n \in 0..MaxLen}

\* --------------------------------------------------------------- client.py
base_url == "http://localhost:6006"

NoBody == [json |-> "none", runs |-> <<>>]

\* The decoded shapes a 2xx body can have: not JSON at all, JSON that is not
\* a list of strings, or a JSON list of run names.
Bodies ==
    {[json |-> "invalid", runs |-> <<>>], [json |-> "not_str_list", runs |-> <<>>]}
        \cup {[json |-> "str_list", runs |-> l] : l \in RunLists}

\* What self.client.get(url) followed by raise_for_status() can do.
HttpOutcomes ==
    {[kind |-> k, cause |-> c, body |-> NoBody] :
        k \in {"ConnectError", "TimeoutException", "HTTPStatusError"}, c \in Causes}
        \cup {[kind |-> "ReadError", cause |-> "reset", body |-> NoBody]}
        \cup {[kind |-> "2xx", cause |-> "", body |-> b] : b \in Bodies}

Raise(exc, msg) == [tag |-> "raise", exc |-> exc, msg |-> msg, body |-> NoBody]

_make_request(http) ==
    CASE http.kind = "ConnectError" ->
            Raise("TensorBoardConnectionError",
                  <<"Unable to connect to TensorBoard at ", base_url, ": ", http.cause>>)
      [] http.kind = "TimeoutException" ->
            Raise("TensorBoardConnectionError",
                  <<"Request timeout connecting to TensorBoard: ", http.cause>>)
      [] http.kind = "HTTPStatusError" ->
            Raise("TensorBoardAPIError", <<"TensorBoard API error: ", http.cause>>)
      [] http.kind = "2xx" ->
            [tag |-> "return", exc |-> "", msg |-> EmptyStr, body |-> http.body]
      [] OTHER -> Raise(http.kind, <<http.cause>>)

\* get_runs: response.json() raises on a body that is not JSON, and
\* RunsResponse(runs=json_data) raises on JSON that is not a list of strings.
get_runs ==
    [http \in HttpOutcomes |->
        LET response == _make_request(http) IN
        IF response.tag = "raise"
        THEN [tag |-> "raise", exc |-> response.exc, msg |-> response.msg,
              has_runs |-> FALSE, runs |-> <<>>]
        ELSE IF response.body.json = "invalid"
        THEN [tag |-> "raise", exc |-> "JSONDecodeError", msg |-> <<"Expecting value">>,
              has_runs |-> FALSE, runs |-> <<>>]
        ELSE IF response.body.json = "not_str_list"
        THEN [tag |-> "raise", exc |-> "ValidationError", msg |-> <<"validation error">>,
              has_runs |-> FALSE, runs |-> <<>>]
        ELSE [tag |-> "return", exc |-> "", msg |-> EmptyStr,
              has_runs |-> TRUE, runs |-> response.body.runs]]

\* ------------------------------------------------------------- messages.py
RunsListUpdated(runs) == [type |-> "RunsListUpdated", runs |-> runs]

ConnectionStatusChanged(connected, error) ==
    [type |-> "ConnectionStatusChanged", connected |-> connected, error |-> error]

\* --------------------------------------------------------------- backend.py
VARIABLES
    cached_runs,    \* Backend._cached_runs
    connected,      \* Backend._connected
    last_error,     \* Backend._last_error
    messages,       \* what message_pump.post_message has received, in order
    data_changed_calls, \* how often message_pump.on_data_changed was called
    history,        \* one record per poll_updates call made so far
    returned,       \* the object a caller got from the cached_runs property
    backend,        \* TextBoardApp.backend is not None
    select_value,   \* value of the Select "refresh-interval" in the header
    queue,          \* messages posted to the app and not handled yet
    polling_timer,  \* TextBoardApp.polling_timer: 0 for None, else the timer
    polling_interval, \* TextBoardApp.polling_interval
    timers,         \* the timers made by set_interval, in order of creation
    inflight,       \* the poll_updates calls suspended in their fetch
    title,          \* TextBoardApp.title
    ghost,          \* what has happened so far, for stating the claims
    phase,          \* "running" until App.run() returns, then "exited", then "atexit"
    closes,         \* how often aclose() of the client's httpx.AsyncClient has run
    scope,          \* a TensorBoardClient used in an "async with" block
    runs_data,      \* TextBoardApp.runs_data
    server,         \* "flaky": a fetch may fail; "up": every fetch returns UpRuns
    panel,          \* the LeftPanel: its runs_data and what its last step did
    cli             \* cli.main(): where it is, and its TensorBoardManager

backendVars == <<cached_runs, connected, last_error>>

sinkVars == <<messages, data_changed_calls>>

appVars == <<backend, select_value, queue, polling_timer, polling_interval, timers,
             inflight, title, ghost>>

restVars == <<phase, closes, scope, runs_data, server, panel, cli>>

vars == <<cached_runs, connected, last_error, messages, data_changed_calls, history, returned,
          backend, select_value, queue, polling_timer, polling_interval, timers,
          inflight, title, ghost, phase, closes, scope, runs_data, server,
          panel, cli>>

Snapshot == [cached_runs |-> cached_runs, connected |-> connected, last_error |-> last_error]

\* backend.py:85   self._cached_runs != current_runs
RunsChangedAlways(cached, current_runs) == TRUE

RunsChangedUnordered(cached, current_runs) ==
    \/ ~cached.some
    \/ {cached.val[i] : i \in 1..Len(cached.val)}
           # {current_runs[i] : i \in 1..Len(current_runs)}
    \/ Len(cached.val) # Len(current_runs)

RunsChanged(cached, current_runs) == cached # Some(current_runs)

\* backend.py:94   not self._connected or self._last_error
NeedsConnectedUpdateAlways(conn, err) == TRUE

NeedsConnectedUpdateOnlyOnError(conn, err) == err # EmptyStr

NeedsConnectedUpdate(conn, err) == ~conn \/ err # EmptyStr

\* backend.py:108  self._connected or self._last_error != error_msg
NeedsDisconnectedUpdateAlways(conn, err, error_msg) == TRUE

NeedsDisconnectedUpdate(conn, err, error_msg) == conn \/ err # error_msg

\* backend.py:84-101, the try body after the fetch returned current_runs
OnRunsKeepsError(s, current_runs) ==
    LET changed == RunsChanged(s.cached_runs, current_runs)
        update == NeedsConnectedUpdate(s.connected, s.last_error)
    IN  [cached_runs |-> IF changed THEN Some(current_runs) ELSE s.cached_runs,
         connected |-> IF update THEN TRUE ELSE s.connected,
         last_error |-> s.last_error,
         emitted |-> (IF changed THEN <<RunsListUpdated(current_runs)>> ELSE <<>>)
                     \o (IF update THEN <<ConnectionStatusChanged(TRUE, EmptyStr)>> ELSE <<>>),
         escaped |-> "none"]

OnRunsElif(s, current_runs) ==
    LET changed == RunsChanged(s.cached_runs, current_runs)
        update == ~changed /\ NeedsConnectedUpdate(s.connected, s.last_error)
    IN  [cached_runs |-> IF changed THEN Some(current_runs) ELSE s.cached_runs,
         connected |-> IF update THEN TRUE ELSE s.connected,
         last_error |-> IF update THEN EmptyStr ELSE s.last_error,
         emitted |-> (IF changed THEN <<RunsListUpdated(current_runs)>> ELSE <<>>)
                     \o (IF update THEN <<ConnectionStatusChanged(TRUE, EmptyStr)>> ELSE <<>>),
         escaped |-> "none"]

OnRunsPostsTwice(s, current_runs) ==
    LET changed == RunsChanged(s.cached_runs, current_runs)
        update == NeedsConnectedUpdate(s.connected, s.last_error)
    IN  [cached_runs |-> IF changed THEN Some(current_runs) ELSE s.cached_runs,
         connected |-> IF update THEN TRUE ELSE s.connected,
         last_error |-> IF update THEN EmptyStr ELSE s.last_error,
         emitted |-> (IF changed
                      THEN <<RunsListUpdated(current_runs),
                             ConnectionStatusChanged(TRUE, EmptyStr)>>
                      ELSE <<>>)
                     \o (IF update THEN <<ConnectionStatusChanged(TRUE, EmptyStr)>> ELSE <<>>),
         escaped |-> "none"]

OnRunsConnectionFirst(s, current_runs) ==
    LET changed == RunsChanged(s.cached_runs, current_runs)
        update == NeedsConnectedUpdate(s.connected, s.last_error)
    IN  [cached_runs |-> IF changed THEN Some(current_runs) ELSE s.cached_runs,
         connected |-> IF update THEN TRUE ELSE s.connected,
         last_error |-> IF update THEN EmptyStr ELSE s.last_error,
         emitted |-> (IF update THEN <<ConnectionStatusChanged(TRUE, EmptyStr)>> ELSE <<>>)
                     \o (IF changed THEN <<RunsListUpdated(current_runs)>> ELSE <<>>),
         escaped |-> "none"]

OnRunsSilentReconnect(s, current_runs) ==
    LET changed == RunsChanged(s.cached_runs, current_runs)
        update == NeedsConnectedUpdate(s.connected, s.last_error)
    IN  [cached_runs |-> IF changed THEN Some(current_runs) ELSE s.cached_runs,
         connected |-> IF update THEN TRUE ELSE s.connected,
         last_error |-> IF update THEN EmptyStr ELSE s.last_error,
         emitted |-> (IF changed THEN <<RunsListUpdated(current_runs)>> ELSE <<>>),
         escaped |-> "none"]

OnRunsNotifiesAlways(s, current_runs) ==
    LET changed == RunsChanged(s.cached_runs, current_runs)
        update == NeedsConnectedUpdate(s.connected, s.last_error)
    IN  [cached_runs |-> IF changed THEN Some(current_runs) ELSE s.cached_runs,
         connected |-> IF update THEN TRUE ELSE s.connected,
         last_error |-> IF update THEN EmptyStr ELSE s.last_error,
         emitted |-> <<RunsListUpdated(current_runs)>>
                     \o (IF update THEN <<ConnectionStatusChanged(TRUE, EmptyStr)>> ELSE <<>>),
         escaped |-> "none"]

OnRuns(s, current_runs) ==
    LET changed == RunsChanged(s.cached_runs, current_runs)
        update == NeedsConnectedUpdate(s.connected, s.last_error)
    IN  [cached_runs |-> IF changed THEN Some(current_runs) ELSE s.cached_runs,
         connected |-> IF update THEN TRUE ELSE s.connected,
         last_error |-> IF update THEN EmptyStr ELSE s.last_error,
         emitted |-> (IF changed THEN <<RunsListUpdated(current_runs)>> ELSE <<>>)
                     \o (IF update THEN <<ConnectionStatusChanged(TRUE, EmptyStr)>> ELSE <<>>),
         escaped |-> "none"]

\* backend.py:103-115, the except clause for the two client errors
OnClientErrorDropsCache(s, error_msg) ==
    LET update == NeedsDisconnectedUpdate(s.connected, s.last_error, error_msg)
    IN  [cached_runs |-> None,
         connected |-> IF update THEN FALSE ELSE s.connected,
         last_error |-> IF update THEN error_msg ELSE s.last_error,
         emitted |-> IF update THEN <<ConnectionStatusChanged(FALSE, error_msg)>> ELSE <<>>,
         escaped |-> "none"]

OnClientErrorKeepsConnected(s, error_msg) ==
    LET update == NeedsDisconnectedUpdate(s.connected, s.last_error, error_msg)
    IN  [cached_runs |-> s.cached_runs,
         connected |-> s.connected,
         last_error |-> IF update THEN error_msg ELSE s.last_error,
         emitted |-> IF update THEN <<ConnectionStatusChanged(FALSE, error_msg)>> ELSE <<>>,
         escaped |-> "none"]

OnClientError(s, error_msg) ==
    LET update == NeedsDisconnectedUpdate(s.connected, s.last_error, error_msg)
    IN  [cached_runs |-> s.cached_runs,
         connected |-> IF update THEN FALSE ELSE s.connected,
         last_error |-> IF update THEN error_msg ELSE s.last_error,
         emitted |-> IF update THEN <<ConnectionStatusChanged(FALSE, error_msg)>> ELSE <<>>,
         escaped |-> "none"]

\* backend.py:68-72  poll_updates up to its await: it logs and starts the
\* fetch, and writes no field
before_await_marks_connected(s) == [s EXCEPT !.connected = TRUE]

before_await(s) == s

\* backend.py:103  except (TensorBoardConnectionError, TensorBoardAPIError)
Caught == {"TensorBoardConnectionError", "TensorBoardAPIError"}

\* backend.py:61-115  poll_updates, from the return of the awaited fetch on.
\* An exception that is not caught leaves the fields as they are and escapes.
poll_updates_missing_runs_as_empty(s, fetched) ==
    IF fetched.tag = "return"
    THEN OnRuns(s, fetched.runs)
    ELSE IF fetched.exc \in Caught
    THEN OnClientError(s, fetched.msg)
    ELSE [cached_runs |-> s.cached_runs, connected |-> s.connected,
          last_error |-> s.last_error, emitted |-> <<>>, escaped |-> fetched.exc]

poll_updates(s, fetched) ==
    IF fetched.tag = "return"
    THEN IF fetched.has_runs
         THEN OnRuns(s, fetched.runs)
         ELSE [cached_runs |-> s.cached_runs, connected |-> s.connected,
               last_error |-> s.last_error, emitted |-> <<>>, escaped |-> "none"]
    ELSE IF fetched.exc \in Caught
    THEN OnClientError(s, fetched.msg)
    ELSE [cached_runs |-> s.cached_runs, connected |-> s.connected,
          last_error |-> s.last_error, emitted |-> <<>>, escaped |-> fetched.exc]

\* backend.py:69-72, 103-115  how many fetches one call of poll_updates awaits:
\* the one of line 72, whatever its outcome; neither the try body nor the
\* except clause calls get_runs again
fetches_with_retry(fetched) == IF fetched.tag = "raise" THEN 2 ELSE 1

fetches(fetched) == 1

\* backend.py:122-126  the cached_runs property
CachedRunsAccessor == IF Truthy(cached_runs) THEN cached_runs ELSE None

\* backend.py:126  the object the property hands out: list.copy() makes a new
\* list, so it is not shared with self._cached_runs.
cached_runs_property_no_copy(c) ==
    IF Truthy(c) THEN [some |-> TRUE, val |-> c.val, shared |-> TRUE]
    ELSE [some |-> FALSE, val |-> <<>>, shared |-> FALSE]

cached_runs_property(c) ==
    IF Truthy(c) THEN [some |-> TRUE, val |-> c.val, shared |-> FALSE]
    ELSE [some |-> FALSE, val |-> <<>>, shared |-> FALSE]

\* no caller holds a returned list
NotHeld == [held |-> FALSE, some |-> FALSE, val |-> <<>>, shared |-> FALSE,
            seen |-> None, cache |-> None, seen_at |-> 0]

\* backend.py:128-131
is_connected == connected

\* no TensorBoardClient is in use as a context manager
NoScope == [state |-> "none", calls |-> <<>>, exit |-> "none"]

\* ------------------------------------------------------------ left_panel.py
\* A tuple and a list are different Python values also when their items are
\* the same: ("a",) != ["a"].
PyTuple(items) == [kind |-> "tuple", items |-> items]

PyList(items) == [kind |-> "list", items |-> items]

\* left_panel.py:19  runs_data = reactive(tuple): the panel before on_mount
NotMounted ==
    [mounted |-> FALSE, runs_data |-> PyTuple(<<>>), assigned |-> FALSE, rendered |-> 0,
     ticks_since_change |-> 0]

\* left_panel.py:53-84  update_runs_display(runs) while the reactive holds cur:
\* line 56 assigns runs.copy(), a list, to the reactive; if that changes it,
\* watch_runs_data runs update_runs_display once more, which finds its copy
\* stored already.  rendered: how often the checkboxes were rebuilt.
update_runs_display(cur, runs) ==
    IF cur # PyList(runs)
    THEN [runs_data |-> PyList(runs), rendered |-> 2]
    ELSE [runs_data |-> cur, rendered |-> 1]

\* left_panel.py:48-51  an assignment to the reactive runs_data: a value that
\* differs from the one held is stored and watch_runs_data is called, which
\* calls update_runs_display(list(new_value))
set_runs_data(cur, value) ==
    IF cur # value
    THEN update_runs_display(value, value.items)
    ELSE [runs_data |-> cur, rendered |-> 0]

\* left_panel.py:43-46  _sync_with_app
_sync_with_app(cur, app_runs_data) ==
    IF app_runs_data # cur
    THEN [assigned |-> TRUE,
          runs_data |-> set_runs_data(cur, app_runs_data).runs_data,
          rendered |-> set_runs_data(cur, app_runs_data).rendered]
    ELSE [assigned |-> FALSE, runs_data |-> cur, rendered |-> 0]

\* ------------------------------------------------------ server.py, cli.py
\* server.py:56-58  a TensorBoardManager as constructed.  process and
\* server_url: the attribute is not None; os: the tensorboard process itself
NoServer == [process |-> FALSE, server_url |-> FALSE, os |-> "none"]

\* server.py:95-105  stop_server; in_time: the process ends within the five
\* seconds of wait(), else it is killed
stop_server_keeps_url(m, in_time) ==
    IF m.process
    THEN [process |-> FALSE,
          server_url |-> m.server_url,
          os |-> IF m.os = "running"
                 THEN (IF in_time THEN "terminated" ELSE "killed")
                 ELSE m.os]
    ELSE m

stop_server(m, in_time) ==
    IF m.process
    THEN [process |-> FALSE,
          server_url |-> FALSE,
          os |-> IF m.os = "running"
                 THEN (IF in_time THEN "terminated" ELSE "killed")
                 ELSE m.os]
    ELSE m

\* cli.py:16-62  main() has not been called
NotStarted ==
    [pc |-> "none", mode |-> "none", tries |-> 0, manager |-> NoServer, app |-> FALSE,
     raised |-> "none", status |-> "none", stops |-> 0, before_stop |-> NoServer]

\* backend.py:56-59, MockMessagePump.__init__, TextBoardApp.__init__
\* (app.py:48-62) and the Select of the header (header.py:52-64)
Init ==
    /\ cached_runs = None
    /\ connected = FALSE
    /\ last_error = EmptyStr
    /\ messages = <<>>
    /\ data_changed_calls = 0
    /\ history = <<>>
    /\ returned = NotHeld
    /\ backend = FALSE
    /\ select_value = "INACTIVE"
    /\ queue = <<>>
    /\ polling_timer = 0
    /\ polling_interval = 30
    /\ timers = <<>>
    /\ inflight = {}
    /\ title = ""
    /\ ghost = [last |-> "init", selections |-> 0, presses |-> 0, ric_handled |-> 0,
                refresh_handled |-> 0, refresh_polls |-> 0, timer_polls |-> 0,
                inactive_while_running |-> FALSE, abandoned |-> 0, failed |-> FALSE,
                last_csc |-> "none"]
    /\ phase = "running"
    /\ closes = 0
    /\ scope = NoScope
    /\ runs_data = <<>>
    /\ server = "flaky"
    /\ panel = NotMounted
    /\ cli = NotStarted

\* One call of poll_updates whose fetch ends as http.  A run-list change is
\* handed to post_message (backend.py:90-91); poll_updates has no call of
\* message_pump.on_data_changed.
Poll(http) ==
    /\ Len(history) < MaxPolls
    /\ LET fetched == get_runs[http]
           out == poll_updates(Snapshot, fetched)
       IN  /\ cached_runs' = out.cached_runs
           /\ connected' = out.connected
           /\ last_error' = out.last_error
           /\ messages' = messages \o out.emitted
           /\ data_changed_calls' = data_changed_calls
           /\ returned' = [returned EXCEPT
                  !.shared = returned.shared /\ out.cached_runs = cached_runs]
           /\ history' = Append(history,
                  [http |-> http,
                   fetched |-> fetched,
                   fetches |-> fetches(fetched),
                   before |-> Snapshot,
                   after |-> [cached_runs |-> out.cached_runs, connected |-> out.connected,
                              last_error |-> out.last_error],
                   emitted |-> out.emitted,
                   escaped |-> out.escaped])
    /\ UNCHANGED appVars
    /\ UNCHANGED restVars

\* the fetch returns a RunsResponse
PollSuccess ==
    \E http \in HttpOutcomes : get_runs[http].tag = "return" /\ Poll(http)

\* the fetch raises TensorBoardConnectionError or TensorBoardAPIError
PollClientError ==
    \E http \in HttpOutcomes :
        /\ get_runs[http].tag = "raise"
        /\ get_runs[http].exc \in Caught
        /\ Poll(http)

\* the fetch raises anything else
PollUncaught ==
    \E http \in HttpOutcomes :
        /\ get_runs[http].tag = "raise"
        /\ get_runs[http].exc \notin Caught
        /\ Poll(http)

Next == PollSuccess \/ PollClientError \/ PollUncaught

Spec == Init /\ [][Next]_vars

\* ------------------------------------------------- callers of cached_runs
\* test_backend.py:190  cached = backend.cached_runs
ReadCachedRuns ==
    /\ LET r == cached_runs_property(cached_runs)
       IN  returned' = [held |-> TRUE, some |-> r.some, val |-> r.val, shared |-> r.shared,
                        seen |-> [some |-> r.some, val |-> r.val],
                        cache |-> cached_runs,
                        seen_at |-> Len(history)]
    /\ UNCHANGED <<cached_runs, connected, last_error, messages, data_changed_calls, history>>
    /\ UNCHANGED appVars
    /\ UNCHANGED restVars

\* list.append, list.pop(i) and list.reverse on a list
Mutations(l) ==
    {Append(l, r) : r \in IF Len(l) < MaxLen THEN Runs ELSE {}}
        \cup {SubSeq(l, 1, i - 1) \o SubSeq(l, i + 1, Len(l)) : i \in 1..Len(l)}
        \cup {[i \in 1..Len(l) |-> l[Len(l) + 1 - i]]}

\* The caller mutates the list it got.  A list object shared with the Backend
\* is the Backend's list, so the change shows in _cached_runs as well.
MutateReturned ==
    /\ returned.held /\ returned.some
    /\ \E l \in Mutations(returned.val) :
        /\ l # returned.val
        /\ returned' = [returned EXCEPT !.val = l]
        /\ cached_runs' = IF returned.shared THEN Some(l) ELSE cached_runs
    /\ UNCHANGED <<connected, last_error, messages, data_changed_calls, history>>
    /\ UNCHANGED appVars
    /\ UNCHANGED restVars

CopyPoll == Len(history) < MaxCopyPolls /\ PollSuccess

NextCopy == CopyPoll \/ ReadCachedRuns \/ MutateReturned

SpecCopy == Init /\ [][NextCopy]_vars

\* ------------------------------------------------- ui/header.py, ui/app.py
\* The app is the Backend's message pump (app.py:91).  Messages posted to the
\* app wait in its queue and are handled one at a time; a handler that awaits
\* blocks the handling of the messages behind it.  A callback given to
\* call_later is such a message.  A timer made by set_interval is a task of
\* its own: it awaits its callback before it sleeps again, and stop() cancels
\* the task together with a callback it is awaiting.
RefreshRequested == [type |-> "RefreshRequested"]

RefreshIntervalChanged(interval) == [type |-> "RefreshIntervalChanged", interval |-> interval]

Callback == [type |-> "Callback"]

\* header.py:53-60  the options of the Select
SelectValues == {"INACTIVE", "5s", "10s", "30s", "1m", "5m"}

\* header.py:82-88
interval_map_minute_is_one == [v \in SelectValues \ {"INACTIVE"} |->
    CASE v = "5s" -> 5 [] v = "10s" -> 10 [] v = "30s" -> 30 [] v = "1m" -> 1 [] v = "5m" -> 5]

interval_map == [v \in SelectValues \ {"INACTIVE"} |->
    CASE v = "5s" -> 5 [] v = "10s" -> 10 [] v = "30s" -> 30 [] v = "1m" -> 60 [] v = "5m" -> 300]

\* header.py:76-90  what on_select_changed posts for the new value
on_select_changed_unguarded(value) ==
    <<RefreshIntervalChanged(IF value \in DOMAIN interval_map THEN interval_map[value] ELSE 30)>>

on_select_changed(value) ==
    IF value # "INACTIVE"
    THEN <<RefreshIntervalChanged(IF value \in DOMAIN interval_map
                                  THEN interval_map[value] ELSE 30)>>
    ELSE <<>>

\* app.py:144-151  what on_refresh_requested hands to call_later
on_refresh_requested_twice(has_backend) ==
    IF has_backend THEN <<Callback, Callback>> ELSE <<>>

on_refresh_requested(has_backend) ==
    IF has_backend THEN <<Callback>> ELSE <<>>

\* The fetch outcomes drawn for the polls of the running app.
AppHttpOutcomes ==
    {[kind |-> "2xx", cause |-> "", body |-> [json |-> "str_list", runs |-> <<"a">>]],
     [kind |-> "ConnectError", cause |-> "refused", body |-> NoBody]}

UserEvents == ghost.selections + ghost.presses

PollsStarted == ghost.refresh_polls + ghost.timer_polls

\* the message loop runs and is not inside a handler that awaits
LoopFree == phase = "running" /\ \A p \in inflight : p.src # "call_later"

HeadIs(type) == queue # <<>> /\ queue[1].type = type

\* app.py:83-100  on_mount: the Backend is made, no timer is started
OnMountStartsPolling ==
    /\ phase = "running" /\ ~backend
    /\ backend' = TRUE
    /\ title' = "TextBoard"
    /\ timers' = Append(timers, [interval |-> polling_interval, stopped |-> FALSE])
    /\ polling_timer' = Len(timers) + 1
    /\ ghost' = [ghost EXCEPT !.last = "on_mount"]
    /\ UNCHANGED <<select_value, queue, polling_interval, inflight>>
    /\ UNCHANGED <<backendVars, sinkVars, history, returned>>
    /\ UNCHANGED restVars

OnMount ==
    /\ phase = "running" /\ ~backend
    /\ backend' = TRUE
    /\ title' = "TextBoard"
    /\ ghost' = [ghost EXCEPT !.last = "on_mount"]
    /\ UNCHANGED <<select_value, queue, polling_timer, polling_interval, timers, inflight>>
    /\ UNCHANGED <<backendVars, sinkVars, history, returned>>
    /\ UNCHANGED restVars

\* header.py:70-74  the refresh button is pressed
PressRefresh ==
    /\ phase = "running" /\ backend
    /\ UserEvents < MaxUserEvents
    /\ queue' = Append(queue, RefreshRequested)
    /\ ghost' = [ghost EXCEPT !.last = "on_button_pressed", !.presses = @ + 1]
    /\ UNCHANGED <<backend, select_value, polling_timer, polling_interval, timers,
                   inflight, title>>
    /\ UNCHANGED <<backendVars, sinkVars, history, returned>>
    /\ UNCHANGED restVars

\* header.py:76-90  the user picks another value in the Select
SelectChanged ==
    /\ phase = "running" /\ backend
    /\ UserEvents < MaxUserEvents
    /\ \E value \in SelectValues \ {select_value} :
        /\ select_value' = value
        /\ queue' = queue \o on_select_changed(value)
        /\ ghost' = [ghost EXCEPT
               !.last = "on_select_changed",
               !.selections = @ + 1,
               !.inactive_while_running =
                   /\ value = "INACTIVE"
                   /\ polling_timer # 0
                   /\ ~timers[polling_timer].stopped]
    /\ UNCHANGED <<backend, polling_timer, polling_interval, timers, inflight, title>>
    /\ UNCHANGED <<backendVars, sinkVars, history, returned>>
    /\ UNCHANGED restVars

\* app.py:144-151  on_refresh_requested
HandleRefreshRequested ==
    /\ backend /\ LoopFree /\ HeadIs("RefreshRequested")
    /\ queue' = Tail(queue) \o on_refresh_requested(backend)
    /\ ghost' = [ghost EXCEPT !.last = "on_refresh_requested", !.refresh_handled = @ + 1]
    /\ UNCHANGED <<backend, select_value, polling_timer, polling_interval, timers,
                   inflight, title>>
    /\ UNCHANGED <<backendVars, sinkVars, history, returned>>
    /\ UNCHANGED restVars

\* app.py:153-169  on_refresh_interval_changed
HandleRefreshIntervalChangedKeepsOld ==
    /\ backend /\ LoopFree /\ HeadIs("RefreshIntervalChanged")
    /\ polling_interval' = queue[1].interval
    /\ timers' = Append(timers, [interval |-> queue[1].interval, stopped |-> FALSE])
    /\ polling_timer' = Len(timers) + 1
    /\ inflight' = inflight
    /\ queue' = Tail(queue)
    /\ ghost' = [ghost EXCEPT !.last = "on_refresh_interval_changed", !.ric_handled = @ + 1]
    /\ UNCHANGED <<backend, select_value, title>>
    /\ UNCHANGED <<backendVars, sinkVars, history, returned>>
    /\ UNCHANGED restVars

HandleRefreshIntervalChanged ==
    /\ backend /\ LoopFree /\ HeadIs("RefreshIntervalChanged")
    /\ polling_interval' = queue[1].interval
    /\ LET stopped == IF polling_timer # 0
                      THEN [timers EXCEPT ![polling_timer].stopped = TRUE]
                      ELSE timers
       IN  IF backend
           THEN /\ timers' = Append(stopped,
                       [interval |-> queue[1].interval, stopped |-> FALSE])
                /\ polling_timer' = Len(timers) + 1
           ELSE /\ timers' = stopped
                /\ polling_timer' = 0
    /\ inflight' = {p \in inflight : p.src # "timer" \/ p.timer # polling_timer}
    /\ queue' = Tail(queue)
    /\ ghost' = [ghost EXCEPT
           !.last = "on_refresh_interval_changed",
           !.ric_handled = @ + 1,
           !.abandoned = @ + Cardinality({p \in inflight :
                                             p.src = "timer" /\ p.timer = polling_timer})]
    /\ UNCHANGED <<backend, select_value, title>>
    /\ UNCHANGED <<backendVars, sinkVars, history, returned>>
    /\ UNCHANGED restVars

\* app.py:149  the callback of call_later runs: poll_updates up to its await
HandleCallback ==
    /\ backend /\ LoopFree /\ HeadIs("Callback")
    /\ PollsStarted < MaxAppPolls
    /\ queue' = Tail(queue)
    /\ inflight' = inflight \cup {[src |-> "call_later", timer |-> 0]}
    /\ ghost' = [ghost EXCEPT !.last = "call_later", !.refresh_polls = @ + 1]
    /\ cached_runs' = before_await(Snapshot).cached_runs
    /\ connected' = before_await(Snapshot).connected
    /\ last_error' = before_await(Snapshot).last_error
    /\ UNCHANGED <<backend, select_value, polling_timer, polling_interval, timers, title>>
    /\ UNCHANGED <<sinkVars, history, returned>>
    /\ UNCHANGED restVars

\* app.py:167  a timer of set_interval fires: poll_updates up to its await
TimerTick ==
    /\ PollsStarted < MaxAppPolls
    /\ \E t \in 1..Len(timers) :
        /\ ~timers[t].stopped
        /\ \A p \in inflight : p.timer # t
        /\ inflight' = inflight \cup {[src |-> "timer", timer |-> t]}
    /\ ghost' = [ghost EXCEPT !.last = "timer", !.timer_polls = @ + 1]
    /\ cached_runs' = before_await(Snapshot).cached_runs
    /\ connected' = before_await(Snapshot).connected
    /\ last_error' = before_await(Snapshot).last_error
    /\ UNCHANGED <<backend, select_value, queue, polling_timer, polling_interval, timers, title>>
    /\ UNCHANGED <<sinkVars, history, returned>>
    /\ UNCHANGED restVars

\* backend.py:72-115  the fetch of a suspended poll_updates ends and the call
\* runs to its end; what it posts goes to the app.
PollReturnsWith(p, outcomes) ==
    /\ p \in inflight
    /\ \E http \in outcomes :
        LET out == poll_updates(Snapshot, get_runs[http])
        IN  /\ cached_runs' = out.cached_runs
            /\ connected' = out.connected
            /\ last_error' = out.last_error
            /\ queue' = queue \o out.emitted
            /\ inflight' = inflight \ {p}
            /\ ghost' = [ghost EXCEPT
                   !.last = "poll_updates",
                   !.failed = @ \/ get_runs[http].tag = "raise"]
    /\ UNCHANGED <<backend, select_value, polling_timer, polling_interval, timers, title>>
    /\ UNCHANGED <<sinkVars, history, returned>>
    /\ UNCHANGED restVars

PollReturns == \E p \in inflight : PollReturnsWith(p, AppHttpOutcomes)

\* app.py:175-180  the title on_connection_status_changed sets
on_connection_status_changed_one_way(message) ==
    IF message.connected THEN "TextBoard - Connected" ELSE "TextBoard"

on_connection_status_changed(message) ==
    IF message.connected THEN "TextBoard - Connected" ELSE "TextBoard - Disconnected"

\* app.py:173-182  on_connection_status_changed
HandleConnectionStatusChanged ==
    /\ backend /\ LoopFree /\ HeadIs("ConnectionStatusChanged")
    /\ title' = on_connection_status_changed(queue[1])
    /\ queue' = Tail(queue)
    /\ ghost' = [ghost EXCEPT
           !.last = "on_connection_status_changed",
           !.last_csc = IF queue[1].connected THEN "connected" ELSE "disconnected"]
    /\ UNCHANGED <<backend, select_value, polling_timer, polling_interval, timers, inflight>>
    /\ UNCHANGED <<backendVars, sinkVars, history, returned>>
    /\ UNCHANGED restVars

\* app.py:171  the app has no handler for RunsListUpdated
HandleRunsListUpdated ==
    /\ backend /\ LoopFree /\ HeadIs("RunsListUpdated")
    /\ queue' = Tail(queue)
    /\ ghost' = [ghost EXCEPT !.last = "unhandled"]
    /\ UNCHANGED <<backend, select_value, polling_timer, polling_interval, timers,
                   inflight, title>>
    /\ UNCHANGED <<backendVars, sinkVars, history, returned>>
    /\ UNCHANGED restVars

NextApp ==
    \/ OnMount
    \/ PressRefresh
    \/ SelectChanged
    \/ HandleRefreshRequested
    \/ HandleRefreshIntervalChanged
    \/ HandleCallback
    \/ TimerTick
    \/ PollReturns
    \/ HandleConnectionStatusChanged
    \/ HandleRunsListUpdated

SpecApp == Init /\ [][NextApp]_vars

\* ---------------------------------------------------- polling by cadence
\* The run list the server gives once it is up for good.
UpRuns == <<"a">>

\* what a fetch can end in while the server is flaky, and once it is up
ServerOutcomes(srv) ==
    IF srv = "up"
    THEN {[kind |-> "2xx", cause |-> "", body |-> [json |-> "str_list", runs |-> UpRuns]]}
    ELSE {[kind |-> "2xx", cause |-> "", body |-> [json |-> "str_list", runs |-> <<"b">>]],
          [kind |-> "ConnectError", cause |-> "refused", body |-> NoBody]}

\* from now on every fetch succeeds
ServerUp ==
    /\ server = "flaky"
    /\ server' = "up"
    /\ UNCHANGED <<backendVars, sinkVars, history, returned, appVars>>
    /\ UNCHANGED <<phase, closes, scope, runs_data, panel, cli>>

\* app.py:167  a timer of set_interval fires, as often as time goes on.  The
\* intervals are seconds long: a tick finds at most MaxQueue messages not yet
\* handled.
CadenceTick ==
    /\ Len(queue) <= MaxQueue
    /\ \E t \in 1..Len(timers) :
        /\ ~timers[t].stopped
        /\ \A p \in inflight : p.timer # t
        /\ inflight' = inflight \cup {[src |-> "timer", timer |-> t]}
    /\ ghost' = [ghost EXCEPT !.last = "timer"]
    /\ cached_runs' = before_await(Snapshot).cached_runs
    /\ connected' = before_await(Snapshot).connected
    /\ last_error' = before_await(Snapshot).last_error
    /\ UNCHANGED <<backend, select_value, queue, polling_timer, polling_interval, timers, title>>
    /\ UNCHANGED <<sinkVars, history, returned>>
    /\ UNCHANGED restVars

\* app.py:149  the callback of call_later runs: poll_updates up to its await
CadenceCallback ==
    /\ backend /\ LoopFree /\ HeadIs("Callback")
    /\ queue' = Tail(queue)
    /\ inflight' = inflight \cup {[src |-> "call_later", timer |-> 0]}
    /\ ghost' = [ghost EXCEPT !.last = "call_later"]
    /\ cached_runs' = before_await(Snapshot).cached_runs
    /\ connected' = before_await(Snapshot).connected
    /\ last_error' = before_await(Snapshot).last_error
    /\ UNCHANGED <<backend, select_value, polling_timer, polling_interval, timers, title>>
    /\ UNCHANGED <<sinkVars, history, returned>>
    /\ UNCHANGED restVars

\* the poll_updates calls there can be
PollIds ==
    {[src |-> "call_later", timer |-> 0]}
        \cup {[src |-> "timer", timer |-> t] : t \in 1..MaxUserEvents}

\* backend.py:72-115  the fetch of the suspended call p ends
CadencePollReturns(p) == PollReturnsWith(p, ServerOutcomes(server))

NextCadence ==
    \/ OnMount
    \/ PressRefresh
    \/ SelectChanged
    \/ HandleRefreshRequested
    \/ HandleRefreshIntervalChanged
    \/ CadenceCallback
    \/ CadenceTick
    \/ \E p \in PollIds : CadencePollReturns(p)
    \/ HandleConnectionStatusChanged
    \/ HandleRunsListUpdated
    \/ ServerUp

\* The event loop runs every task that can run: a timer fires when its
\* interval has passed, a fetch ends (the client has a timeout), and the
\* message loop handles the message at the head of its queue.
CadenceFairness ==
    /\ WF_vars(CadenceTick)
    /\ \A p \in PollIds : WF_vars(CadencePollReturns(p))
    /\ WF_vars(HandleRefreshRequested)
    /\ WF_vars(HandleRefreshIntervalChanged)
    /\ WF_vars(CadenceCallback)
    /\ WF_vars(HandleConnectionStatusChanged)
    /\ WF_vars(HandleRunsListUpdated)

SpecCadence == Init /\ [][NextCadence]_vars /\ CadenceFairness

\* ------------------------------------------------------------------ shutdown
\* client.py:253-255  close awaits self.client.aclose()
close(n) == n + 1

\* backend.py:117-120  cleanup awaits self.client.close()
cleanup(n) == close(n)

CleanupCallback == [type |-> "CleanupCallback"]

\* app.py:196-200  what TextBoardApp.cleanup hands to call_later
app_cleanup(has_backend) == IF has_backend THEN <<CleanupCallback>> ELSE <<>>

\* cli.py:54  app.run() returns: the message loop has ended, the timers are
\* stopped and the event loop has cancelled the tasks that were still running.
AppExit ==
    /\ phase = "running"
    /\ phase' = "exited"
    /\ timers' = [t \in 1..Len(timers) |-> [timers[t] EXCEPT !.stopped = TRUE]]
    /\ inflight' = {}
    /\ ghost' = [ghost EXCEPT !.last = "exit", !.abandoned = @ + Cardinality(inflight)]
    /\ UNCHANGED <<backend, select_value, queue, polling_timer, polling_interval, title>>
    /\ UNCHANGED <<backendVars, sinkVars, history, returned>>
    /\ UNCHANGED <<closes, scope, runs_data, server, panel, cli>>

\* TextBoardApp.cleanup with a reset of the Backend's fields added
AtExitCleanupResetsSnapshot ==
    /\ phase = "exited"
    /\ phase' = "atexit"
    /\ timers' = IF polling_timer # 0
                 THEN [timers EXCEPT ![polling_timer].stopped = TRUE] ELSE timers
    /\ polling_timer' = 0
    /\ queue' = queue \o app_cleanup(backend)
    /\ ghost' = [ghost EXCEPT !.last = "cleanup"]
    /\ cached_runs' = None
    /\ connected' = FALSE
    /\ last_error' = EmptyStr
    /\ UNCHANGED <<backend, select_value, polling_interval, inflight, title>>
    /\ UNCHANGED <<sinkVars, history, returned>>
    /\ UNCHANGED <<closes, scope, runs_data, server, panel, cli>>

\* app.py:184-202  TextBoardApp.cleanup, registered with atexit (app.py:65) and
\* called nowhere else: it runs when the interpreter exits, after app.run()
\* has returned.  The callback it hands to call_later is a message to an app
\* whose message loop has ended.
AtExitCleanup ==
    /\ phase = "exited"
    /\ phase' = "atexit"
    /\ timers' = IF polling_timer # 0
                 THEN [timers EXCEPT ![polling_timer].stopped = TRUE] ELSE timers
    /\ polling_timer' = 0
    /\ queue' = queue \o app_cleanup(backend)
    /\ ghost' = [ghost EXCEPT !.last = "cleanup"]
    /\ UNCHANGED <<backend, select_value, polling_interval, inflight, title>>
    /\ UNCHANGED <<backendVars, sinkVars, history, returned>>
    /\ UNCHANGED <<closes, scope, runs_data, server, panel, cli>>

\* backend.py:122-136  code of the running app reads the Backend's accessors
AppReadsBackend ==
    /\ phase = "running" /\ backend
    /\ ReadCachedRuns

NextShutdown == NextApp \/ AppExit \/ AtExitCleanup \/ AppReadsBackend

SpecShutdown == Init /\ [][NextShutdown]_vars

\* ----------------------------------------------- the client as a resource
\* client.py:261-263  __aexit__ awaits self.close() whatever it is given, and
\* returns None, so an exception goes on to the caller of the block
__aexit__skips_on_error(exc_type, n) == IF exc_type = "none" THEN close(n) ELSE n

__aexit__(exc_type, n) == close(n)

\* what the body of an "async with" block can raise besides a failed request
BodyErrors == {"ValueError", "CancelledError"}

\* client.py:48-59, 257-259  async with TensorBoardClient() as client
ScopeEnter ==
    /\ scope.state = "none"
    /\ scope' = [scope EXCEPT !.state = "open"]
    /\ UNCHANGED <<backendVars, sinkVars, history, returned, appVars>>
    /\ UNCHANGED <<phase, closes, runs_data, server, panel, cli>>

\* client.py:106-121  the body awaits client.get_runs(); a failure is raised
\* inside the block and leaves it through __aexit__
ScopeRequest ==
    /\ scope.state = "open"
    /\ Len(scope.calls) < MaxScopeCalls
    /\ \E http \in HttpOutcomes :
        LET result == get_runs[http] IN
        IF result.tag = "return"
        THEN /\ scope' = [scope EXCEPT !.calls = Append(@, http)]
             /\ closes' = closes
        ELSE /\ scope' = [state |-> "left", calls |-> Append(scope.calls, http),
                          exit |-> result.exc]
             /\ closes' = __aexit__(result.exc, closes)
    /\ UNCHANGED <<backendVars, sinkVars, history, returned, appVars>>
    /\ UNCHANGED <<phase, runs_data, server, panel, cli>>

\* the body raises something else
ScopeBodyRaises ==
    /\ scope.state = "open"
    /\ \E exc \in BodyErrors :
        /\ scope' = [scope EXCEPT !.state = "left", !.exit = exc]
        /\ closes' = __aexit__(exc, closes)
    /\ UNCHANGED <<backendVars, sinkVars, history, returned, appVars>>
    /\ UNCHANGED <<phase, runs_data, server, panel, cli>>

\* the body runs to its end
ScopeEnds ==
    /\ scope.state = "open"
    /\ scope' = [scope EXCEPT !.state = "left", !.exit = "none"]
    /\ closes' = __aexit__("none", closes)
    /\ UNCHANGED <<backendVars, sinkVars, history, returned, appVars>>
    /\ UNCHANGED <<phase, runs_data, server, panel, cli>>

NextScope == ScopeEnter \/ ScopeRequest \/ ScopeBodyRaises \/ ScopeEnds

SpecScope == Init /\ [][NextScope]_vars

\* ------------------------------------------------ a Backend with a stub client
\* test_backend.py:53, 124  get_runs of backend.client is patched: the fetch
\* gives whatever the stub is told to give.  The texts a stub error may carry:
StubTexts == {EmptyStr, <<"Connection refused">>, <<"Server error">>}

\* backend.py:72  what the awaited get_runs of a stub client can give: a
\* response with a runs list, an object without a runs attribute, or one of
\* the two client errors with any text
StubFetches ==
    {[tag |-> "return", exc |-> "", msg |-> EmptyStr, has_runs |-> TRUE, runs |-> r] :
        r \in RunLists}
    \cup {[tag |-> "return", exc |-> "", msg |-> EmptyStr, has_runs |-> FALSE, runs |-> <<>>]}
    \cup {[tag |-> "raise", exc |-> e, msg |-> t, has_runs |-> FALSE, runs |-> <<>>] :
            e \in Caught, t \in StubTexts}

\* the HTTP layer is not reached when get_runs is patched
Patched == [kind |-> "patched", cause |-> "", body |-> NoBody]

\* backend.py:61-115  one call of poll_updates on a Backend whose client is a
\* stub giving fetched
StubPoll(fetched) ==
    /\ Len(history) < MaxPolls
    /\ LET out == poll_updates(Snapshot, fetched)
       IN  /\ cached_runs' = out.cached_runs
           /\ connected' = out.connected
           /\ last_error' = out.last_error
           /\ messages' = messages \o out.emitted
           /\ data_changed_calls' = data_changed_calls
           /\ returned' = [returned EXCEPT
                  !.shared = returned.shared /\ out.cached_runs = cached_runs]
           /\ history' = Append(history,
                  [http |-> Patched,
                   fetched |-> fetched,
                   fetches |-> fetches(fetched),
                   before |-> Snapshot,
                   after |-> [cached_runs |-> out.cached_runs, connected |-> out.connected,
                              last_error |-> out.last_error],
                   emitted |-> out.emitted,
                   escaped |-> out.escaped])
    /\ UNCHANGED appVars
    /\ UNCHANGED restVars

\* the stub returns a RunsResponse
StubPollRuns ==
    \E fetched \in StubFetches : fetched.tag = "return" /\ fetched.has_runs /\ StubPoll(fetched)

\* the stub returns an object that has no runs attribute
StubPollNoRuns ==
    \E fetched \in StubFetches : fetched.tag = "return" /\ ~fetched.has_runs /\ StubPoll(fetched)

\* the stub raises TensorBoardConnectionError or TensorBoardAPIError
StubPollRaises ==
    \E fetched \in StubFetches : fetched.tag = "raise" /\ StubPoll(fetched)

NextStub == StubPollRuns \/ StubPollNoRuns \/ StubPollRaises

SpecStub == Init /\ [][NextStub]_vars

\* ------------------------------------------------- polls that overlap, logged
\* The running app with every poll_updates call numbered in the order the
\* calls are started (the fetch is issued at the call's first await,
\* backend.py:72) and every completed call logged in the order of completion.
\* What a fetch can end in: the server's run list at the time it answers, or
\* a refused connection.
OverlapOutcomes ==
    {[kind |-> "2xx", cause |-> "", body |-> [json |-> "str_list", runs |-> <<"a">>]],
     [kind |-> "2xx", cause |-> "", body |-> [json |-> "str_list", runs |-> <<"a", "b">>]],
     [kind |-> "ConnectError", cause |-> "refused", body |-> NoBody]}

\* app.py:149  the callback of call_later runs: poll_updates up to its await
OverlapCallback ==
    /\ backend /\ LoopFree /\ HeadIs("Callback")
    /\ PollsStarted < MaxAppPolls
    /\ queue' = Tail(queue)
    /\ inflight' = inflight \cup
           {[src |-> "call_later", timer |-> 0, issued |-> PollsStarted + 1]}
    /\ ghost' = [ghost EXCEPT !.last = "call_later", !.refresh_polls = @ + 1]
    /\ cached_runs' = before_await(Snapshot).cached_runs
    /\ connected' = before_await(Snapshot).connected
    /\ last_error' = before_await(Snapshot).last_error
    /\ UNCHANGED <<backend, select_value, polling_timer, polling_interval, timers, title>>
    /\ UNCHANGED <<sinkVars, history, returned>>
    /\ UNCHANGED restVars

\* app.py:167  a timer of set_interval fires: poll_updates up to its await
OverlapTick ==
    /\ PollsStarted < MaxAppPolls
    /\ \E t \in 1..Len(timers) :
        /\ ~timers[t].stopped
        /\ \A p \in inflight : p.timer # t
        /\ inflight' = inflight \cup
               {[src |-> "timer", timer |-> t, issued |-> PollsStarted + 1]}
    /\ ghost' = [ghost EXCEPT !.last = "timer", !.timer_polls = @ + 1]
    /\ cached_runs' = before_await(Snapshot).cached_runs
    /\ connected' = before_await(Snapshot).connected
    /\ last_error' = before_await(Snapshot).last_error
    /\ UNCHANGED <<backend, select_value, queue, polling_timer, polling_interval, timers, title>>
    /\ UNCHANGED <<sinkVars, history, returned>>
    /\ UNCHANGED restVars

\* backend.py:72-115  the fetch of a suspended poll_updates ends, in any order
\* among the suspended calls, and the call runs to its end without another
\* await
OverlapPollReturns ==
    /\ \E p \in inflight, http \in OverlapOutcomes :
        LET fetched == get_runs[http]
            out == poll_updates(Snapshot, fetched)
        IN  /\ cached_runs' = out.cached_runs
            /\ connected' = out.connected
            /\ last_error' = out.last_error
            /\ queue' = queue \o out.emitted
            /\ inflight' = inflight \ {p}
            /\ ghost' = [ghost EXCEPT
                   !.last = "poll_updates",
                   !.failed = @ \/ fetched.tag = "raise"]
            /\ history' = Append(history,
                   [issued |-> p.issued,
                    fetched |-> fetched,
                    before |-> Snapshot,
                    after |-> [cached_runs |-> out.cached_runs, connected |-> out.connected,
                               last_error |-> out.last_error],
                    emitted |-> out.emitted])
    /\ UNCHANGED <<backend, select_value, polling_timer, polling_interval, timers, title>>
    /\ UNCHANGED <<sinkVars, returned>>
    /\ UNCHANGED restVars

NextOverlap ==
    \/ OnMount
    \/ PressRefresh
    \/ SelectChanged
    \/ HandleRefreshRequested
    \/ HandleRefreshIntervalChanged
    \/ OverlapCallback
    \/ OverlapTick
    \/ OverlapPollReturns
    \/ HandleConnectionStatusChanged
    \/ HandleRunsListUpdated

SpecOverlap == Init /\ [][NextOverlap]_vars

\* ------------------------------------------- interval changes and shutdown
\* test_app_message_integration.py:152  app.post_message(RefreshIntervalChanged(5.0)):
\* the message is posted to the app itself, here before on_mount has made
\* the Backend
PostedIntervals == {5, 10}

PostIntervalChanged ==
    /\ phase = "running" /\ ~backend
    /\ UserEvents < MaxUserEvents
    /\ \E interval \in PostedIntervals : queue' = Append(queue, RefreshIntervalChanged(interval))
    /\ ghost' = [ghost EXCEPT !.last = "post_message", !.selections = @ + 1]
    /\ UNCHANGED <<backend, select_value, polling_timer, polling_interval, timers,
                   inflight, title>>
    /\ UNCHANGED <<backendVars, sinkVars, history, returned>>
    /\ UNCHANGED restVars

\* app.py:153-169  on_refresh_interval_changed when self.backend is None: the
\* interval is stored, a timer there is gets stopped, none is installed
HandleRefreshIntervalChangedNoBackend ==
    /\ ~backend /\ LoopFree /\ HeadIs("RefreshIntervalChanged")
    /\ polling_interval' = queue[1].interval
    /\ LET stopped == IF polling_timer # 0
                      THEN [timers EXCEPT ![polling_timer].stopped = TRUE]
                      ELSE timers
       IN  IF backend
           THEN /\ timers' = Append(stopped,
                       [interval |-> queue[1].interval, stopped |-> FALSE])
                /\ polling_timer' = Len(timers) + 1
           ELSE /\ timers' = stopped
                /\ polling_timer' = 0
    /\ inflight' = {p \in inflight : p.src # "timer" \/ p.timer # polling_timer}
    /\ queue' = Tail(queue)
    /\ ghost' = [ghost EXCEPT !.last = "on_refresh_interval_changed", !.ric_handled = @ + 1]
    /\ UNCHANGED <<backend, select_value, title>>
    /\ UNCHANGED <<backendVars, sinkVars, history, returned>>
    /\ UNCHANGED restVars

NextTimers ==
    \/ OnMount
    \/ PostIntervalChanged
    \/ SelectChanged
    \/ HandleRefreshIntervalChangedNoBackend
    \/ HandleRefreshIntervalChanged
    \/ TimerTick
    \/ PollReturns
    \/ HandleConnectionStatusChanged
    \/ HandleRunsListUpdated
    \/ AppExit
    \/ AtExitCleanup

SpecTimers == Init /\ [][NextTimers]_vars

\* --------------------------------------------------- the LeftPanel's sync
\* the number of sync ticks since app.runs_data last changed is counted up
\* to this
TicksCounted == 3

\* left_panel.py:34-41  on_mount of the panel: the first assignment from the
\* app, and the 0.5 s timer of _sync_with_app is started.  Textual may call
\* the watcher of a reactive with the default value when it initialises the
\* reactive, which the assignment of line 38 makes it do; both cases are kept.
PanelOnMount ==
    /\ phase = "running" /\ ~panel.mounted
    /\ \E watched_at_init \in BOOLEAN :
        LET init == IF watched_at_init
                    THEN update_runs_display(panel.runs_data, panel.runs_data.items)
                    ELSE [runs_data |-> panel.runs_data, rendered |-> 0]
            set == set_runs_data(init.runs_data, PyTuple(runs_data))
        IN  panel' = [panel EXCEPT
                !.mounted = TRUE,
                !.runs_data = set.runs_data,
                !.assigned = TRUE,
                !.rendered = init.rendered + set.rendered]
    /\ UNCHANGED <<backendVars, sinkVars, history, returned, appVars>>
    /\ UNCHANGED <<phase, closes, scope, runs_data, server, cli>>

\* app.py:102-106  on_data_changed, called with a Backend that has
\* get_current_runs_tuple (test_full_message_integration.py:66-72): the app's
\* reactive gets another tuple
OnDataChanged ==
    /\ phase = "running" /\ backend
    /\ \E runs \in RunLists \ {runs_data} : runs_data' = runs
    /\ panel' = [panel EXCEPT !.ticks_since_change = 0]
    /\ UNCHANGED <<backendVars, sinkVars, history, returned, appVars>>
    /\ UNCHANGED <<phase, closes, scope, server, cli>>

\* left_panel.py:41, 43-46  the panel's timer fires
SyncTick ==
    /\ phase = "running" /\ panel.mounted
    /\ LET sync == _sync_with_app(panel.runs_data, PyTuple(runs_data))
       IN  panel' = [panel EXCEPT
               !.runs_data = sync.runs_data,
               !.assigned = sync.assigned,
               !.rendered = sync.rendered,
               !.ticks_since_change =
                   IF @ < TicksCounted THEN @ + 1 ELSE @]
    /\ UNCHANGED <<backendVars, sinkVars, history, returned, appVars>>
    /\ UNCHANGED <<phase, closes, scope, runs_data, server, cli>>

NextPanel == OnMount \/ PanelOnMount \/ OnDataChanged \/ SyncTick

SpecPanel == Init /\ [][NextPanel]_vars

\* ------------------------------------------------------------ cli.main()
\* server.py:71-74  start_server tries to connect int(max_wait / wait_time)
\* times; the model tries this often
MaxTries == 2

\* cli.py:20-23  the three ways of naming the server
CliModes == {"logdir", "log_file", "host"}

CliUnchanged ==
    /\ UNCHANGED <<backendVars, sinkVars, history, returned, appVars>>
    /\ UNCHANGED <<phase, closes, scope, runs_data, server, panel>>

\* cli.py:36-49  main() is called: the manager is made and the try entered
CliMain ==
    /\ cli.pc = "none"
    /\ \E mode \in CliModes :
        cli' = [cli EXCEPT
            !.mode = mode,
            !.pc = CASE mode = "logdir" -> "start"
                     [] mode = "log_file" -> "extract"
                     [] mode = "host" -> "app"]
    /\ CliUnchanged

\* cli.py:45, server.py:27-50  extract_log_archive returns or raises
CliExtract ==
    /\ cli.pc = "extract"
    /\ \/ cli' = [cli EXCEPT !.pc = "start"]
       \/ cli' = [cli EXCEPT !.pc = "except", !.raised = "Exception"]
    /\ CliUnchanged

\* server.py:62-67  start_server up to Popen: find_free_port or Popen raises,
\* or the process is started and stored
CliPopen ==
    /\ cli.pc = "start"
    /\ \/ cli' = [cli EXCEPT !.pc = "except", !.raised = "Exception"]
       \/ cli' = [cli EXCEPT
              !.pc = "wait",
              !.manager = [process |-> TRUE, server_url |-> FALSE, os |-> "running"]]
    /\ CliUnchanged

\* server.py:74-93  one round of the wait loop: the port answers and
\* start_server returns the url, or it does not
CliWait ==
    /\ cli.pc = "wait" /\ cli.tries < MaxTries
    /\ \/ /\ cli.manager.os = "running"
          /\ cli' = [cli EXCEPT !.pc = "app", !.manager.server_url = TRUE]
       \/ cli' = [cli EXCEPT !.tries = @ + 1]
    /\ CliUnchanged

\* server.py:85-89  the loop ran out: communicate() returns once the process
\* has ended, and RuntimeError is raised
CliWaitGivesUp ==
    /\ cli.pc = "wait" /\ cli.tries = MaxTries
    /\ cli.manager.os = "exited"
    /\ cli' = [cli EXCEPT !.pc = "except", !.raised = "Exception"]
    /\ CliUnchanged

\* the tensorboard process ends by itself
ServerDies ==
    /\ cli.pc \in {"wait", "app", "run"}
    /\ cli.manager.os = "running"
    /\ cli' = [cli EXCEPT !.manager.os = "exited"]
    /\ CliUnchanged

\* cli.py:52-53  the app is made and given the manager
CliMakesApp ==
    /\ cli.pc = "app"
    /\ cli' = [cli EXCEPT !.pc = "run", !.app = TRUE]
    /\ CliUnchanged

\* cli.py:54  app.run() returns or raises
CliAppRuns ==
    /\ cli.pc = "run"
    /\ \/ cli' = [cli EXCEPT !.pc = "finally"]
       \/ cli' = [cli EXCEPT !.pc = "except", !.raised = "Exception"]
    /\ CliUnchanged

\* Ctrl-C while main() is in its try block
CliInterrupt ==
    /\ cli.pc \in {"extract", "start", "wait", "app", "run"}
    /\ cli' = [cli EXCEPT !.pc = "except", !.raised = "KeyboardInterrupt"]
    /\ CliUnchanged

\* cli.py:56-60  the except clauses: sys.exit(1) for an Exception
CliExcept ==
    /\ cli.pc = "except"
    /\ cli' = [cli EXCEPT
           !.pc = "finally",
           !.status = IF cli.raised = "Exception" THEN "1" ELSE @]
    /\ CliUnchanged

\* cli.py:61-62  finally: stop_server, and main() is left
CliFinally ==
    /\ cli.pc = "finally"
    /\ \E in_time \in BOOLEAN :
        cli' = [cli EXCEPT
            !.pc = "done",
            !.manager = stop_server(cli.manager, in_time),
            !.before_stop = cli.manager,
            !.stops = @ + 1,
            !.status = IF @ = "none" THEN "0" ELSE @]
    /\ CliUnchanged

\* app.py:65, 202  the interpreter exits: the cleanup the app registered with
\* atexit calls stop_server of the same manager once more
CliAtExit ==
    /\ cli.pc = "done" /\ cli.app
    /\ \E in_time \in BOOLEAN :
        cli' = [cli EXCEPT
            !.pc = "atexit",
            !.manager = stop_server(cli.manager, in_time),
            !.before_stop = cli.manager,
            !.stops = @ + 1]
    /\ CliUnchanged

NextCli ==
    \/ CliMain
    \/ CliExtract
    \/ CliPopen
    \/ CliWait
    \/ CliWaitGivesUp
    \/ ServerDies
    \/ CliMakesApp
    \/ CliAppRuns
    \/ CliInterrupt
    \/ CliExcept
    \/ CliFinally
    \/ CliAtExit

SpecCli == Init /\ [][NextCli]_vars

\* ------------------------------------------------------------------ claims
Polls == 1..Len(history)

\* the poll's fetch returned a run list
Succeeded(i) == history[i].fetched.tag = "return" /\ history[i].fetched.has_runs

\* the poll's fetch raised one of the two client errors
Failed(i) == history[i].fetched.tag = "raise" /\ history[i].fetched.exc \in Caught

IsData(m) == m.type = "RunsListUpdated"

IsConn(m) == m.type = "ConnectionStatusChanged"

DataPart(i) == SelectSeq(history[i].emitted, IsData)

ConnPart(i) == SelectSeq(history[i].emitted, IsConn)

\* C1: a failed poll with message m leaves connected = false and
\* last_error = m, and posts exactly ConnectionStatusChanged(false, m) if
\* connected was true or last_error differed from m before the poll, and
\* nothing otherwise.  So the first failure after the start or after a success
\* posts one notification, a directly following failure with the same message
\* posts none, and one with another message m' posts one carrying m'.
C1_FailedPollNotifiesOnChange ==
    \A i \in Polls : Failed(i) =>
        LET m == history[i].fetched.msg
            b == history[i].before
        IN  /\ history[i].after.connected = FALSE
            /\ history[i].after.last_error = m
            /\ history[i].emitted =
                   IF b.connected \/ b.last_error # m
                   THEN <<ConnectionStatusChanged(FALSE, m)>> ELSE <<>>
            /\ (i = 1 \/ (i > 1 /\ Succeeded(i - 1)))
                   => history[i].emitted = <<ConnectionStatusChanged(FALSE, m)>>
            /\ (i > 1 /\ Failed(i - 1))
                   => history[i].emitted =
                          IF history[i - 1].fetched.msg = m
                          THEN <<>> ELSE <<ConnectionStatusChanged(FALSE, m)>>

\* two failures with one message in a row, then a failure with another one
C1_Witness ==
    \E i \in Polls :
        /\ i + 2 \in Polls
        /\ Failed(i) /\ Failed(i + 1) /\ Failed(i + 2)
        /\ history[i].fetched.msg = history[i + 1].fetched.msg
        /\ history[i + 2].fetched.msg # history[i].fetched.msg
        /\ Len(history[i].emitted) = 1
        /\ Len(history[i + 1].emitted) = 0
        /\ Len(history[i + 2].emitted) = 1

\* C2: a successful poll posts ConnectionStatusChanged(true, "") exactly when
\* connected was false or last_error was non-empty before it, and then leaves
\* connected = true and last_error = ""; from connected with an empty error
\* it posts no connection message.
C2_SuccessfulPollNotifiesOnReconnect ==
    \A i \in Polls : Succeeded(i) =>
        LET b == history[i].before IN
        IF ~b.connected \/ b.last_error # EmptyStr
        THEN /\ ConnPart(i) = <<ConnectionStatusChanged(TRUE, EmptyStr)>>
             /\ history[i].after.connected = TRUE
             /\ history[i].after.last_error = EmptyStr
        ELSE /\ ConnPart(i) = <<>>
             /\ history[i].after.connected = b.connected
             /\ history[i].after.last_error = b.last_error

\* a recovery that posts the message, then a success that posts none
C2_Witness ==
    \E i \in Polls :
        /\ i + 2 \in Polls
        /\ Failed(i) /\ Succeeded(i + 1) /\ Succeeded(i + 2)
        /\ Len(ConnPart(i + 1)) = 1
        /\ Len(ConnPart(i + 2)) = 0

C4_FailedPollKeepsCache ==
    \A i \in Polls : Failed(i) =>
        /\ history[i].after.cached_runs = history[i].before.cached_runs
        /\ DataPart(i) = <<>>

\* a list is cached and survives two failures in a row
C4_Witness ==
    \E i \in Polls :
        /\ i + 1 \in Polls
        /\ Failed(i) /\ Failed(i + 1)
        /\ history[i].before.cached_runs = Some(<<"a">>)
        /\ cached_runs = Some(<<"a">>)

\* C5: poll_updates never raises: when the fetch ends in a run list, a
\* refused connection, a timeout, an error status or a 2xx answer with a
\* malformed body, the call returns normally and posts at most one connection
\* message.
C5_PollNeverRaises ==
    \A i \in Polls :
        history[i].http.kind \in {"2xx", "ConnectError", "TimeoutException", "HTTPStatusError"}
            => /\ history[i].escaped = "none"
               /\ Len(ConnPart(i)) <= 1

\* C6: connected = true implies last_error = "".
C6_ErrorOnlyWhenDisconnected ==
    connected => last_error = EmptyStr

\* connected again after a failure had stored an error
C6_Witness ==
    /\ connected
    /\ \E i \in Polls : Failed(i) /\ history[i].after.last_error # EmptyStr

\* C7: a poll that returns after a successful fetch leaves connected = true
\* and one that returns after a failed fetch leaves connected = false, so
\* after the most recent completed poll is_connected tells which it was.
C7_ConnectedIffLastPollSucceeded ==
    /\ \A i \in Polls :
        /\ Succeeded(i) => history[i].after.connected
        /\ Failed(i) => ~history[i].after.connected
    /\ \A i \in Polls :
        (/\ Succeeded(i) \/ Failed(i)
         /\ \A j \in Polls : j > i => history[j].escaped # "none")
            => (is_connected <=> Succeeded(i))

\* both directions: a success from disconnected and a failure from connected
C7_Witness ==
    \E i \in Polls :
        /\ i + 1 \in Polls
        /\ Succeeded(i) /\ ~history[i].before.connected
        /\ Failed(i + 1) /\ history[i + 1].before.connected
        /\ ~is_connected

NoSuccessYet == \A i \in Polls : ~Succeeded(i)

LastSuccess == CHOOSE i \in Polls : Succeeded(i) /\ \A j \in Polls : j > i => ~Succeeded(j)

\* C8: the cached_runs accessor returns None until the first successful poll
\* and afterwards the list of the most recent successful fetch, the empty list
\* included.
C8_AccessorReturnsLastGoodFetch ==
    CachedRunsAccessor =
        IF NoSuccessYet THEN None ELSE Some(history[LastSuccess].fetched.runs)

\* C9: a successful poll that directly follows a successful poll with the
\* same list posts nothing and leaves cache, connected and last_error as they
\* were.
C9_IdempotentSuccess ==
    \A i \in Polls :
        (/\ i > 1
         /\ Succeeded(i - 1) /\ Succeeded(i)
         /\ history[i - 1].fetched.runs = history[i].fetched.runs)
            => /\ history[i].emitted = <<>>
               /\ history[i].after = history[i].before

\* the same list three times in a row
C9_Witness ==
    \E i \in Polls :
        /\ i + 2 \in Polls
        /\ Succeeded(i) /\ Succeeded(i + 1) /\ Succeeded(i + 2)
        /\ history[i].fetched.runs = <<"a">>
        /\ history[i + 1].fetched.runs = <<"a">>
        /\ history[i + 2].fetched.runs = <<"a">>
        /\ Len(history[i].emitted) > 0
        /\ history[i + 2].emitted = <<>>

\* C10: among successful polls the run-list update depends only on the cached
\* and the fetched list, and the connection message only on connected and
\* last_error before the poll; a success that follows a failure and fetches
\* the list cached before the failure posts ConnectionStatusChanged(true, "")
\* and nothing else.
C10_DataAndConnectionIndependent ==
    /\ \A i, j \in Polls : (Succeeded(i) /\ Succeeded(j)) =>
        /\ (/\ history[i].before.cached_runs = history[j].before.cached_runs
            /\ history[i].fetched.runs = history[j].fetched.runs)
               => DataPart(i) = DataPart(j)
        /\ (/\ history[i].before.connected = history[j].before.connected
            /\ history[i].before.last_error = history[j].before.last_error)
               => ConnPart(i) = ConnPart(j)
    /\ \A i \in Polls :
        (/\ i > 1
         /\ Failed(i - 1) /\ Succeeded(i)
         /\ history[i - 1].before.cached_runs = Some(history[i].fetched.runs))
            => history[i].emitted = <<ConnectionStatusChanged(TRUE, EmptyStr)>>

\* [a] cached, an outage, then [a] again: only the connection message
C10_Witness ==
    \E i \in Polls :
        /\ i + 2 \in Polls
        /\ Succeeded(i) /\ Failed(i + 1) /\ Succeeded(i + 2)
        /\ history[i].fetched.runs = <<"a">>
        /\ history[i + 2].fetched.runs = <<"a">>
        /\ history[i + 2].emitted = <<ConnectionStatusChanged(TRUE, EmptyStr)>>

\* C11: every poll_updates call posts at most one ConnectionStatusChanged and
\* at most one run-list update, so 0, 1 or 2 notifications in all, and a poll
\* whose fetch failed posts at most one.
C11_AtMostTwoNotificationsPerPoll ==
    \A i \in Polls :
        /\ Len(ConnPart(i)) <= 1
        /\ Len(DataPart(i)) <= 1
        /\ Len(history[i].emitted) = Len(ConnPart(i)) + Len(DataPart(i))
        /\ Len(history[i].emitted) \in {0, 1, 2}
        /\ ~Succeeded(i) => Len(history[i].emitted) <= 1

\* polls that post two, one and no notification
C11_Witness ==
    /\ Len(history) = 3
    /\ Len(history[1].emitted) = 2
    /\ Failed(2) /\ Len(history[2].emitted) = 1
    /\ Failed(3) /\ Len(history[3].emitted) = 0

RECURSIVE Delivered(_)
Delivered(n) == IF n = 0 THEN <<>> ELSE Delivered(n - 1) \o history[n].emitted

CacheChanges == Cardinality({i \in Polls : history[i].after.cached_runs # history[i].before.cached_runs})

\* C13: a run-list change reaches the sink as one call of on_data_changed and
\* not as a posted message: post_message only ever receives
\* ConnectionStatusChanged, and on_data_changed has been called once per
\* change of the cached list.
C13_DataChangeByCallback ==
    /\ \A k \in 1..Len(messages) : IsConn(messages[k])
    /\ data_changed_calls = CacheChanges

\* C14: the list the cached_runs property returns is a copy: whatever the
\* caller does to it, until the next poll the Backend's cache is the one that
\* was read, the property returns what it returned before, and a poll would
\* find the same difference.
C14_CopyIsolation ==
    (returned.held /\ returned.seen_at = Len(history))
        => /\ cached_runs = returned.cache
           /\ CachedRunsAccessor = returned.seen
           /\ \A l \in RunLists :
                RunsChanged(cached_runs, l) = RunsChanged(returned.cache, l)

\* the caller has changed the list it got and no poll has run since
C14_Witness ==
    /\ returned.held /\ returned.some
    /\ returned.seen_at = Len(history)
    /\ returned.seen = Some(<<"a", "b">>)
    /\ returned.val = <<"b">>
    /\ cached_runs = Some(<<"a", "b">>)

\* C15: at most one poll_updates call is suspended in its fetch at any time,
\* whatever the order of timer ticks, refresh requests and interval changes.
C15_AtMostOnePollInFlight ==
    Cardinality(inflight) <= 1

HandlesIntervalChange ==
    /\ ghost'.last = "on_refresh_interval_changed"
    /\ ghost'.ric_handled = ghost.ric_handled + 1

ActiveTimers == {t \in 1..Len(timers) : ~timers[t].stopped}

\* C16: handling RefreshIntervalChanged(interval) stops the timer installed
\* before, installs exactly one new timer with the new interval, sets
\* polling_interval to it, and neither cancels a poll in progress nor starts
\* one.
C16_IntervalChangeReplacesTimer ==
    [][HandlesIntervalChange =>
        /\ polling_interval' = queue[1].interval
        /\ polling_timer # 0 => timers'[polling_timer].stopped
        /\ Len(timers') = Len(timers) + 1
        /\ polling_timer' = Len(timers')
        /\ timers'[polling_timer'] = [interval |-> queue[1].interval, stopped |-> FALSE]
        /\ inflight' = inflight]_vars

\* C17: once the user has selected INACTIVE while a polling timer was running,
\* no timer starts a poll until another interval is selected, and the
\* selection itself starts and cancels no poll.
C17_InactiveStopsScheduledPolls ==
    [][/\ ghost.inactive_while_running => ghost'.timer_polls = ghost.timer_polls
       /\ (ghost'.selections # ghost.selections /\ select_value' = "INACTIVE")
              => inflight' = inflight]_vars

SelectsInactive ==
    /\ ghost'.last = "on_select_changed"
    /\ ghost'.selections = ghost.selections + 1
    /\ select_value' = "INACTIVE"

PendingCallbacks == Cardinality({k \in 1..Len(queue) : queue[k].type = "Callback"})

HandlesRefresh ==
    /\ ghost'.last = "on_refresh_requested"
    /\ ghost'.refresh_handled = ghost.refresh_handled + 1

\* C19: a handled RefreshRequested schedules exactly one poll_updates call
\* when the backend exists, with or without a polling timer, and leaves the
\* timer and polling_interval alone: every handled request is matched by one
\* scheduled callback or one poll it has started.  Without a backend nothing
\* is scheduled.
C19_RefreshPollsOnce ==
    [][/\ HandlesRefresh =>
            /\ queue' = Tail(queue) \o <<Callback>>
            /\ polling_timer' = polling_timer
            /\ polling_interval' = polling_interval
            /\ timers' = timers
            /\ inflight' = inflight
       /\ ghost'.refresh_handled = ghost'.refresh_polls + PendingCallbacks'
       /\ ghost'.refresh_polls # ghost.refresh_polls =>
            /\ ghost'.refresh_polls = ghost.refresh_polls + 1
            /\ PendingCallbacks' = PendingCallbacks - 1
            /\ Cardinality(inflight') = Cardinality(inflight) + 1
       /\ on_refresh_requested(FALSE) = <<>>]_vars

\* a refresh has started its poll while a polling timer is running
C19_Witness ==
    /\ ghost.last = "call_later"
    /\ ghost.refresh_handled = 1
    /\ ghost.refresh_polls = 1
    /\ polling_timer # 0
    /\ [src |-> "call_later", timer |-> 0] \in inflight

\* C20 as stated: until the first RefreshIntervalChanged is handled there is
\* no polling timer, the interval control shows INACTIVE and no timer starts a
\* poll; handling the first one installs a timer.
C20_NoTimerBeforeFirstIntervalChange ==
    /\ ghost.ric_handled = 0 =>
        /\ polling_timer = 0
        /\ select_value = "INACTIVE"
        /\ ghost.timer_polls = 0
    /\ (ghost.ric_handled = 1 /\ ghost.last = "on_refresh_interval_changed")
        => polling_timer # 0

\* C20: until the first RefreshIntervalChanged is handled there is no polling
\* timer and no timer starts a poll; the interval control shows INACTIVE
\* until the user first changes the selection; handling the first
\* RefreshIntervalChanged installs a running timer.
C20_NoTimerBeforeFirstIntervalChangeAmended ==
    /\ ghost.ric_handled = 0 =>
        /\ polling_timer = 0
        /\ ActiveTimers = {}
        /\ ghost.timer_polls = 0
    /\ ghost.selections = 0 => select_value = "INACTIVE"
    /\ (ghost.ric_handled = 1 /\ ghost.last = "on_refresh_interval_changed")
        => (polling_timer # 0 /\ polling_timer \in ActiveTimers)

\* the first RefreshIntervalChanged has just been handled
C20_Witness ==
    /\ ghost.ric_handled = 1
    /\ ghost.last = "on_refresh_interval_changed"
    /\ ghost.presses > 0
    /\ polling_timer = 1

\* C21: once the app's cleanup has run at shutdown, the polling timer is
\* stopped and Backend.cleanup has closed the client's connection exactly once.
C21_ShutdownClosesClientOnce ==
    (phase = "atexit" /\ backend)
        => /\ polling_timer = 0
           /\ ActiveTimers = {}
           /\ closes = cleanup(0)

Abandons == ghost'.abandoned # ghost.abandoned

CompletesPoll == ghost'.last = "poll_updates"

PollResults ==
    {[cached_runs |-> o.cached_runs, connected |-> o.connected, last_error |-> o.last_error] :
        o \in {poll_updates(Snapshot, get_runs[http]) : http \in HttpOutcomes}}

\* C22: a step that abandons a poll suspended in its fetch leaves cached runs,
\* connected and last_error as they were and posts nothing; the three fields
\* change only in the step in which a poll whose fetch has ended runs to its
\* end, and that step takes them from the snapshot before to the complete
\* result of one poll, so no state shows a half-written snapshot.
C22_AbandonedPollLeavesSnapshot ==
    [][/\ Abandons =>
            /\ Snapshot' = Snapshot
            /\ inflight' \subseteq inflight /\ inflight' # inflight
            /\ \A k \in 1..Len(queue') :
                   (IsData(queue'[k]) \/ IsConn(queue'[k]))
                       => \E j \in 1..Len(queue) : queue[j] = queue'[k]
            /\ messages' = messages
       /\ ~CompletesPoll => Snapshot' = Snapshot
       /\ CompletesPoll => Snapshot' \in PollResults
       /\ connected' => last_error' = EmptyStr]_vars

\* one poll has completed and stored a list, a later one was abandoned by an
\* interval change while it was awaiting its fetch
C22_Witness ==
    /\ ghost.abandoned = 1
    /\ ghost.last = "on_refresh_interval_changed"
    /\ ghost.timer_polls = 2
    /\ inflight = {}
    /\ cached_runs = Some(<<"a">>)
    /\ connected

ReadsAccessors == returned' # returned

\* C23: cached runs, connected and last_error change only in a step of
\* poll_updates: reading the accessors, the app's cleanup, and the handlers of
\* RefreshRequested, RefreshIntervalChanged and ConnectionStatusChanged leave
\* all three as they were, and so does every other step of the app.
C23_SnapshotWrittenOnlyByPoll ==
    [][/\ ReadsAccessors => UNCHANGED <<cached_runs, connected, last_error>>
       /\ ghost'.last \in {"cleanup", "exit", "on_refresh_requested",
                            "on_refresh_interval_changed", "on_connection_status_changed",
                            "on_select_changed", "on_button_pressed", "on_mount", "unhandled"}
              => UNCHANGED <<cached_runs, connected, last_error>>
       /\ <<cached_runs, connected, last_error>>' # <<cached_runs, connected, last_error>>
              => ghost'.last = "poll_updates"]_vars

\* a poll has stored a list and a connection; since then the accessors were
\* read, the handlers ran and the app's cleanup ran
C23_Witness ==
    /\ phase = "atexit"
    /\ returned.held /\ returned.seen = Some(<<"a">>)
    /\ cached_runs = Some(<<"a">>) /\ connected /\ last_error = EmptyStr
    /\ ghost.ric_handled = 1 /\ ghost.refresh_handled = 1
    /\ title = "TextBoard - Connected"

\* C24: every failure of a client request reaches the caller as one of two
\* typed errors, TensorBoardConnectionError when the connection cannot be
\* made or the request times out and TensorBoardAPIError for an answer with
\* an error status, and a 2xx answer is returned; there is no third kind.
C24_TwoFailureKinds ==
    \A i \in Polls :
        LET http == history[i].http
            response == _make_request(http)
        IN  /\ http.kind = "2xx" <=> response.tag = "return"
            /\ response.tag = "raise" =>
                   response.exc \in {"TensorBoardConnectionError", "TensorBoardAPIError"}
            /\ http.kind \in {"ConnectError", "TimeoutException"}
                   => response.exc = "TensorBoardConnectionError"
            /\ http.kind = "HTTPStatusError" => response.exc = "TensorBoardAPIError"

\* the formatted message has the piece in it
Includes(msg, piece) == \E k \in 1..Len(msg) : msg[k] = piece

\* C25: the message of every connection error of the client, for a refused
\* connection and for a timeout alike, includes the base URL and the
\* underlying cause, and the message of every API error includes the status
\* detail.
C25_ErrorMessagesNameUrlAndCause ==
    \A i \in Polls :
        LET http == history[i].http
            response == _make_request(http)
        IN  /\ response.exc = "TensorBoardConnectionError"
                   => Includes(response.msg, base_url) /\ Includes(response.msg, http.cause)
            /\ response.exc = "TensorBoardAPIError" => Includes(response.msg, http.cause)

\* C26: a client used in an "async with" block has its connection closed
\* exactly once when the block is left, by reaching its end or by an exception
\* raised inside it, a failed request included, and not before.
C26_ScopeClosesOnce ==
    /\ scope.state = "left" => closes = 1
    /\ scope.state \in {"none", "open"} => closes = 0

\* the block was left by the connection error of its second request
C26_Witness ==
    /\ scope.state = "left"
    /\ scope.exit = "TensorBoardConnectionError"
    /\ Len(scope.calls) = 2
    /\ closes = 1

RECURSIVE FetchesUpTo(_)
FetchesUpTo(n) == IF n = 0 THEN 0 ELSE FetchesUpTo(n - 1) + history[n].fetches

NoNotificationPending == \A k \in 1..Len(queue) : ~IsData(queue[k]) /\ ~IsConn(queue[k])

Recovered ==
    /\ connected
    /\ last_error = EmptyStr
    /\ cached_runs = Some(UpRuns)
    /\ title = "TextBoard - Connected"
    /\ NoNotificationPending

\* C28: with a polling timer running and its ticks, the fetches and the
\* message loop scheduled fairly, if from some point on every fetch succeeds
\* with the list L, then from some point on connected is true, last_error is
\* empty, the cached list is L, the ConnectionStatusChanged(true, "") posted
\* after the last failure has been handled, and the polls post nothing more.
C28_RecoveryByCadence ==
    <>[](server = "up" /\ ActiveTimers # {}) => <>[]Recovered

\* recovered after an outage, the server being up
C28_Witness ==
    /\ Recovered
    /\ ghost.failed
    /\ server = "up"
    /\ ActiveTimers # {}
    /\ inflight = {}

\* C29: after a poll has changed the cached run list, the app's runs_data
\* comes to hold the runs of the cache without any further user action.  It
\* is stated for the app at its most active, with a polling timer running, so
\* that a behaviour that breaks it is one in which the app keeps polling.
C29_UiFollowsCache ==
    []((cached_runs.some /\ ActiveTimers # {}) => <>(runs_data = cached_runs.val))

\* the characters of the titles and of the words looked for in them
Spell(str) ==
    CASE str = "" ->
            <<>>
      [] str = "TextBoard" ->
            <<"T", "e", "x", "t", "B", "o", "a", "r", "d">>
      [] str = "TextBoard - Connected" ->
            <<"T", "e", "x", "t", "B", "o", "a", "r", "d", " ", "-", " ", "C", "o", "n", "n", "e", "c", "t", "e", "d">>
      [] str = "TextBoard - Disconnected" ->
            <<"T", "e", "x", "t", "B", "o", "a", "r", "d", " ", "-", " ", "D", "i", "s", "c", "o", "n", "n", "e", "c", "t", "e", "d">>
      [] str = "Connected" ->
            <<"C", "o", "n", "n", "e", "c", "t", "e", "d">>
      [] str = "Disconnected" ->
            <<"D", "i", "s", "c", "o", "n", "n", "e", "c", "t", "e", "d">>

\* Python's "word in text" for str
StrIn(word, text) ==
    LET w == Spell(word)
        t == Spell(text)
    IN  \E i \in 0..(Len(t) - Len(w)) : SubSeq(t, i + 1, i + Len(w)) = w

\* C30: the title shows the ConnectionStatusChanged handled last: it has
\* "Connected" and not "Disconnected" in it after a message with
\* connected = true, and "Disconnected" after one with connected = false.
C30_TitleFollowsConnectionStatus ==
    /\ ghost.last_csc = "connected"
           => StrIn("Connected", title) /\ ~StrIn("Disconnected", title)
    /\ ghost.last_csc = "disconnected" => StrIn("Disconnected", title)

\* connected first, then a lost connection has been handled
C30_Witness ==
    /\ ghost.last = "on_connection_status_changed"
    /\ ghost.last_csc = "disconnected"
    /\ cached_runs = Some(<<"a">>)
    /\ title = "TextBoard - Disconnected"

\* the number of seconds each active label of the interval control stands for
MappedSeconds(label) ==
    CASE label = "5s" -> 5 [] label = "10s" -> 10 [] label = "30s" -> 30
      [] label = "1m" -> 60 [] label = "5m" -> 300

\* C31: each change of the interval selection to an active value appends
\* exactly one RefreshIntervalChanged carrying the mapped number of seconds
\* (5s 5, 10s 10, 30s 30, 1m 60, 5m 300), and the app, handling a
\* RefreshIntervalChanged, sets polling_interval to the interval it carries.
C31_IntervalMapping ==
    [][/\ (ghost'.last = "on_select_changed" /\ ghost'.selections = ghost.selections + 1
             /\ select_value' # "INACTIVE")
            => queue' = Append(queue, RefreshIntervalChanged(MappedSeconds(select_value')))
       /\ (ghost'.last = "on_refresh_interval_changed"
             /\ ghost'.ric_handled = ghost.ric_handled + 1)
            => (/\ HeadIs("RefreshIntervalChanged")
                /\ polling_interval' = queue[1].interval
                /\ polling_interval' \in {5, 10, 30, 60, 300})]_vars

\* 5m was selected and its message handled: the app polls every 300 seconds
C31_Witness ==
    /\ ghost.last = "on_refresh_interval_changed"
    /\ select_value = "5m"
    /\ polling_interval = 300
    /\ polling_timer # 0
    /\ timers[polling_timer].interval = 300

\* the ConnectionStatusChanged messages handed to the sink so far
ConnMessages == SelectSeq(messages, IsConn)

\* the last poll returned a run list or raised one of the two client errors
LastPollSucceededOrFailed ==
    history # <<>> /\ (Succeeded(Len(history)) \/ Failed(Len(history)))

\* the most recent ConnectionStatusChanged says what the accessors say
LatestConnMessageAgrees ==
    /\ ConnMessages[Len(ConnMessages)].connected = is_connected
    /\ ConnMessages[Len(ConnMessages)].error = last_error

ReturnedNoRuns(i) == history[i].fetched.tag = "return" /\ ~history[i].fetched.has_runs

\* C33: a poll whose fetch returns without error an object that carries no
\* runs list returns normally, leaves cached runs, connected and last_error
\* as they were, and posts nothing.
C33_NoRunsResponseChangesNothing ==
    \A i \in Polls :
        ReturnedNoRuns(i) =>
            /\ history[i].after = history[i].before
            /\ history[i].emitted = <<>>
            /\ history[i].escaped = "none"

\* a first poll cached a list and connected, a response without runs then
\* left all of it alone, and a third poll failed: three messages in all
C33_Witness ==
    /\ Len(history) = 3
    /\ Succeeded(1) /\ Truthy(history[1].after.cached_runs)
    /\ ReturnedNoRuns(2)
    /\ history[2].before.connected /\ history[2].after.connected
    /\ Failed(3) /\ history[3].fetched.msg # EmptyStr
    /\ Len(messages) = 3
    /\ cached_runs = history[1].after.cached_runs

StaleAfterFresh(i, j) ==
    /\ i < j
    /\ history[j].issued < history[i].issued
    /\ Succeeded(i) /\ Succeeded(j)

\* C35: when two poll_updates calls overlap, the response to the fetch issued
\* earlier never replaces the list cached from the fetch issued later: after
\* both have completed the cache holds the list of the later-issued fetch.
C35_StaleResponseNeverWins ==
    \A i \in Polls, j \in Polls :
        StaleAfterFresh(i, j) =>
            history[j].after.cached_runs = Some(history[i].fetched.runs)

RECURSIVE DataNotifications(_)
\* the RunsListUpdated messages posted by the first n completed polls
DataNotifications(n) ==
    IF n = 0 THEN 0 ELSE DataNotifications(n - 1) + Len(DataPart(n))

\* the cached list as the i-th completed poll found it is the one the poll
\* completed before it left (the initial None for the first)
CacheWrittenOnlyByCompletedPolls ==
    /\ \A i \in Polls :
        history[i].before.cached_runs =
            IF i = 1 THEN None ELSE history[i - 1].after.cached_runs
    /\ history # <<>> => cached_runs = history[Len(history)].after.cached_runs

C37_AtMostOneActiveTimer ==
    /\ Cardinality(ActiveTimers) <= 1
    /\ ActiveTimers # {} => ActiveTimers = {polling_timer}
    /\ \A t \in 1..Len(timers) : t # polling_timer => timers[t].stopped
    /\ phase = "atexit" => (ActiveTimers = {} /\ polling_timer = 0)
    /\ (ghost.last = "on_refresh_interval_changed" /\ ~backend)
        => (ActiveTimers = {} /\ polling_timer = 0)

\* a RefreshIntervalChanged was handled before there was a Backend and left
\* no timer, a second one installed the only timer there is
C37_Witness ==
    /\ backend
    /\ ghost.ric_handled = 2
    /\ ghost.last = "on_refresh_interval_changed"
    /\ Len(timers) = 1
    /\ polling_timer = 1
    /\ ActiveTimers = {1}

\* C38: a sync tick of the LeftPanel that finds app.runs_data as the tick
\* before found it assigns nothing and rebuilds no checkbox, and from the
\* first sync after a change on the panel's runs_data equals the app's.
C38_SyncIsNoOpWhenUnchanged ==
    /\ (panel.mounted /\ panel.ticks_since_change >= 2)
        => (~panel.assigned /\ panel.rendered = 0)
    /\ (panel.mounted /\ panel.ticks_since_change >= 1)
        => panel.runs_data = PyTuple(runs_data)

\* C39: on every way out of main() stop_server has run: after a normal exit
\* of the app and after KeyboardInterrupt with status 0, after any other
\* exception with status 1, also when the extraction or start_server failed;
\* a stop_server that finds no process changes nothing, and after
\* stop_server process and server_url are None and the server does not run.
C39_ServerStoppedOnEveryExit ==
    /\ cli.pc \in {"done", "atexit"} =>
        /\ cli.stops >= 1
        /\ cli.status = IF cli.raised = "Exception" THEN "1" ELSE "0"
    /\ cli.stops >= 1 =>
        /\ ~cli.manager.process /\ ~cli.manager.server_url
        /\ cli.manager.os # "running"
        /\ ~cli.before_stop.process => cli.manager = cli.before_stop

\* start_server gave up with the process started and no url stored; the
\* exception led to status 1 and the finally clause stopped the process
C39_Witness ==
    /\ cli.pc = "done"
    /\ cli.mode = "log_file"
    /\ cli.raised = "Exception" /\ cli.status = "1"
    /\ cli.before_stop.process /\ ~cli.before_stop.server_url
    /\ ~cli.manager.process
    /\ ~cli.app

====
